---- MODULE Spec2Model ----
(***************************************************************************)
(* A model of pomodoro_bot.py: the PomodoroBot command handlers, the       *)
(* per-channel Pomodoro objects they keep in _channel_table, and the       *)
(* callbacks those objects hand to connection.execute_delayed.             *)
(*                                                                         *)
(* Python objects are modelled as cells of two heaps (pomodoros, dicts),   *)
(* because a discarded Pomodoro stays alive for as long as a delayed       *)
(* callback references it, and because the break callback receives the     *)
(* dict object that _current_users named when the callback was scheduled.  *)
(***************************************************************************)
EXTENDS Integers, FiniteSets, Sequences, TLC

\* Bound on the number of Pomodoro objects constructed in one run.
MaxSessions == 2

\* Every Pomodoro gets one dict in __init__ and one more per pomodoro_stop.
MaxDicts == 2 * MaxSessions

\* The values the model distinguishes for Python's None, for a ".register"
\* without words, and for a key a dict does not hold.
None == "None"
NoArg == "NoArg"
Absent == "absent"

\* Inputs.  Every command carries its argument: the usage replies (lines
\* 60-62, 69-71, 98-102) and the "is not a channel" reply (lines 57-59) send
\* one notice and touch nothing else.  A run uses the channel names and mode
\* words of one vocabulary, fixed in the initial state (args), together
\* with the minutes of the hour at which its work periods may start.
ChanArgs == {"#a", "#A", "#b"}
Nicks == {"alice", "Bob"}
GoalArgs == {NoArg, "g"}
ModeArgs == {"fast", "long", "lazy", "test", "FAST", "bogus"}

\* One channel under both spellings of its name, every mode word.
OneChannel ==
    [chans |-> {"#a", "#A"}, nicks |-> Nicks, modes |-> ModeArgs,
     minutes |-> {55}]

\* Two channels, the shortest mode and an unknown one.
TwoChannels ==
    [chans |-> {"#a", "#b"}, nicks |-> Nicks, modes |-> {"test", "bogus"},
     minutes |-> {7}]

\* time.gmtime().tm_min
Minutes == 0..59

\* One channel and one user, one mode and an unknown one.
OneUser ==
    [chans |-> {"#a"}, nicks |-> {"alice"}, modes |-> {"test", "bogus"},
     minutes |-> {59}]

\* One channel and one user, the four modes, work periods starting at any
\* minute.
AnyMinute ==
    [chans |-> {"#a"}, nicks |-> {"alice"},
     modes |-> {"fast", "long", "lazy", "test"}, minutes |-> Minutes]

\* str.lower() on the strings the model uses.
Lower(str) ==
    CASE str = "FAST" -> "fast"
      [] str = "#A" -> "#a"
      [] str = "Bob" -> "bob"
      [] OTHER -> str

Channels == {Lower(c) : c \in ChanArgs}

\* Pomodoro._modes and the local table of do_pub_pomodoro: (work, break).
modes ==
    [fast |-> <<25, 5>>, long |-> <<50, 10>>, lazy |-> <<45, 15>>,
     test |-> <<1, 1>>]

\* The default delay of initialize_pomodoro.
RegistrationDelay == 300

SessionIds == 1..MaxSessions
DictIds == 1..MaxDicts

\* A dict nickname -> goal; Absent marks a key the dict does not hold.
Goals == {"", " g"}

\* do_pub_register, lines 156-158: goal = goal + " " + word for each word.
GoalText(words) == IF words = NoArg THEN "" ELSE " g"
EmptyDict == [n \in Nicks |-> Absent]
Keys(d) == {n \in Nicks : d[n] # Absent}
Truthy(d) == Keys(d) # {}

VARIABLES
    channel_table,  \* PomodoroBot._channel_table: key -> Pomodoro id, 0: no key
    pomodoros,      \* heap of Pomodoro objects
    allocated,      \* number of Pomodoro objects constructed so far
    dicts,          \* heap of the dict objects _current_users has named
    ndicts,         \* number of dict objects created so far
    delayed,        \* the commands queued by connection.execute_delayed
    joined,         \* the channels the connection is in (join / part)
    logbook,        \* keys of WorkLogbook._logbook
    reactor,        \* the thread running bot.start: "running" or "dead"
    out,            \* what the last handler or callback sent and raised
    args,           \* the vocabulary of the run: channel names and mode words
    since_break     \* history: per Pomodoro, the registrations accepted since
                    \* its last pomodoro_break (or since construction)

vars == <<channel_table, pomodoros, allocated, dicts, ndicts, delayed, joined,
          logbook, reactor, out, args, since_break>>

\* A Pomodoro whose _current_users is one dict shared by every instance.
NewPomodoro_shared(channel, dict) ==
    [channel |-> channel, current_users |-> 1, pomodoro_session |-> "False",
     votes |-> <<>>, mode |-> None]

\* Pomodoro.__init__ ; an unallocated heap cell holds Unallocated.
NewPomodoro(channel, dict) ==
    [channel |-> channel, current_users |-> dict, pomodoro_session |-> "False",
     votes |-> <<>>, mode |-> None]

Unallocated == NewPomodoro(None, 0)

\* connection.notice(to, ...): text names the message, info its variable part.
Notice(to, text, info) == [to |-> to, text |-> text, info |-> info]

\* What the last handler or delayed function did besides changing state: the
\* notices it sent, in order, and the exception that escaped it.
Handled(notices, raised) == [notices |-> notices, raised |-> raised]

Quiet == Handled(<<>>, None)

\* An effect: the Pomodoro after the call, what was sent, what was queued
\* and the exception that escaped, if any.
Effect(p, notices, sched, raised) ==
    [p |-> p, notices |-> notices, sched |-> sched, raised |-> raised]

Delayed(function, self, mode, users, delay) ==
    [function |-> function, self |-> self, mode |-> mode, users |-> users,
     delay |-> delay]

Start(vocabulary) ==
    /\ args = vocabulary
    /\ channel_table = [c \in Channels |-> 0]
    /\ pomodoros = [s \in SessionIds |-> Unallocated]
    /\ allocated = 0
    /\ dicts = [d \in DictIds |-> EmptyDict]
    /\ ndicts = 0
    /\ delayed = {}
    /\ joined = {}
    /\ logbook = {}
    /\ reactor = "running"
    /\ out = Quiet
    /\ since_break = [s \in SessionIds |-> EmptyDict]

Init == Start(OneChannel)

InitChannels == Start(TwoChannels)

InitClock == Start(AnyMinute)

InitStop == Start(OneUser)

----------------------------------------------------------------------------
(* class Pomodoro *)

\* Pomodoro.session_running
session_running(p) == p.pomodoro_session

\* Pomodoro.users, given the heap of dicts
users(p, heap) == heap[p.current_users]

\* Pomodoro.initialize_pomodoro(mode, delay)
initialize_pomodoro(p, self, mode, delay) ==
    Effect([p EXCEPT !.mode = Lower(mode),
                     !.pomodoro_session = "work",
                     !.votes = <<>>],
           <<>>,
           {Delayed("pomodoro_start", self, Lower(mode), 0, delay)},
           None)

\* str(n) for a natural number below 1000, as its decimal digits.
Str(n) ==
    IF n < 10 THEN <<n>>
    ELSE IF n < 100 THEN <<n \div 10, n % 10>>
    ELSE <<n \div 100, (n \div 10) % 10, n % 10>>

\* An overflow test that never finds the hour crossed.
overflow_never(tm_min, now_to_end) == FALSE

\* Line 267: overflow = True if now_to_end % 60 < now.tm_min else False
overflow(tm_min, now_to_end) == now_to_end % 60 < tm_min

\* Lines 264-279 of pomodoro_start: the labels of the announcement.  A label
\* is ":" followed by digits; the end label closes with suffix.
TimeLabels(tm_min, work_period) ==
    LET now_to_end == tm_min + work_period
        start_above_ten == tm_min >= 10
        end_above_ten == now_to_end % 60 >= 10
        start == IF start_above_ten THEN Str(tm_min) ELSE <<0>> \o Str(tm_min)
        end ==
            IF overflow(tm_min, now_to_end) /\ end_above_ten
            THEN [digits |-> Str(now_to_end % 60),
                  suffix |-> " of the next hour."]
            ELSE IF overflow(tm_min, now_to_end)
            THEN [digits |-> <<0>> \o Str(now_to_end % 60),
                  suffix |-> " of the next hour."]
            ELSE IF end_above_ten
            THEN [digits |-> Str(now_to_end), suffix |-> "."]
            ELSE [digits |-> <<0>> \o Str(now_to_end), suffix |-> "."]
    IN  [start |-> start, end |-> end]

\* Pomodoro.pomodoro_start(mode), called when the clock shows minute tm_min.
\* The notice carries its two labels, and with them the minute and the mode
\* they were computed from.
pomodoro_start(p, self, mode, tm_min) ==
    IF mode \notin DOMAIN modes
    THEN Effect(p, <<>>, {}, "KeyError")
    ELSE Effect([p EXCEPT !.votes = <<>>],
                <<Notice(p.channel, "pomodoro_starts",
                         [tm_min |-> tm_min, mode |-> mode,
                          labels |-> TimeLabels(tm_min, modes[mode][1])])>>,
                {Delayed("pomodoro_break", self, mode, 0, modes[mode][1] * 60)},
                None)

\* A pomodoro_break that forgets to empty the dict.
clear_kept(d) == d

\* self._current_users.clear() in pomodoro_break: the dict object is emptied
\* in place.
clear(d) == EmptyDict

\* Pomodoro.pomodoro_break(mode), without the clearing of the dict, which the
\* action below applies to the heap.
pomodoro_break(p, self, mode) ==
    IF mode \notin DOMAIN modes
    THEN Effect(p, <<>>, {}, "KeyError")
    ELSE Effect([p EXCEPT !.pomodoro_session = "break"],
                <<Notice(p.channel, "minute_break", <<modes[mode][2]>>),
                  Notice(p.channel, "please_register", <<modes[mode][2]>>)>>,
                {Delayed("callback", self, mode, p.current_users,
                         modes[mode][2] * 60)},
                None)

\* The closure callback(users) of pomodoro_break; d is the dict object that
\* was passed when the callback was queued, tm_min the minute it runs at.
callback(p, self, mode, d, tm_min) ==
    IF Truthy(d)
    THEN pomodoro_start(p, self, mode, tm_min)
    ELSE Effect([p EXCEPT !.pomodoro_session = "False"], <<>>, {}, None)

\* Pomodoro.pomodoro_stop: _current_users is bound to a new, empty dict.
pomodoro_stop(p, newdict) == [p EXCEPT !.current_users = newdict]

\* A register_nick that keeps the goal a nickname first registered with.
register_nick_first(p, d, nickname, goal) ==
    IF p.pomodoro_session # "False"
    THEN [d |-> IF d[nickname] = Absent
                THEN [d EXCEPT ![nickname] = goal]
                ELSE d,
          raised |-> None]
    ELSE [d |-> d, raised |-> "NameError"]

\* Pomodoro.register_nick on the dict d that _current_users names.  The name
\* RegistrationError is not in scope inside the method (it is an attribute of
\* the class), so the raise statement raises NameError.
register_nick(p, d, nickname, goal) ==
    IF p.pomodoro_session # "False"
    THEN [d |-> [d EXCEPT ![nickname] = IF goal # "" THEN goal ELSE ""],
          raised |-> None]
    ELSE [d |-> d, raised |-> "NameError"]

\* A vote that opens the tally of a mode nobody has voted for yet.
vote_recorded(p, mode, nickname) ==
    Effect([p EXCEPT !.votes =
               [m \in DOMAIN p.votes \cup {mode} |->
                   IF m = mode
                   THEN (IF m \in DOMAIN p.votes THEN p.votes[m] ELSE {})
                          \cup {nickname}
                   ELSE p.votes[m]]],
           <<>>, {}, None)

\* Pomodoro.vote: self._votes[mode].add(nickname)
vote(p, mode, nickname) ==
    IF mode \in DOMAIN p.votes
    THEN Effect([p EXCEPT !.votes[mode] = @ \cup {nickname}], <<>>, {}, None)
    ELSE Effect(p, <<>>, {}, "KeyError")

\* Pomodoro.votes(): the tallies, or False when there are none.
votes(p) == IF DOMAIN p.votes # {} THEN p.votes ELSE <<>>

----------------------------------------------------------------------------
(* class WorkLogbook, by the keys of _logbook *)

\* WorkLogbook.log_session: the entry is filed under nick.lower().
log_session(book, nick) == book \cup {Lower(nick)}

\* WorkLogbook.save_one: json.dump(self._logbook[nick], ...)
save_one(book, nick) == IF nick \in book THEN None ELSE "KeyError"

----------------------------------------------------------------------------
(* class PomodoroBot *)

\* self._channel_table[key] succeeds
HasKey(key) == key \in Channels /\ channel_table[key] # 0

\* What becomes of the thread running bot.start once a handler or a delayed
\* command has run: an exception that the handlers do not catch reaches the
\* irc library's loop, which may or may not survive it.
After(raised) == IF raised = None THEN {"running"} ELSE {"running", "dead"}

Reply(notices, raised) ==
    /\ out' = Handled(notices, raised)
    /\ reactor' \in After(raised)

\* do_join, sent by the controller as "join <arg>"; is_channel(arg) holds.
do_join(arg) ==
    /\ reactor = "running"
    /\ allocated < MaxSessions
    /\ ndicts < MaxDicts
    /\ joined' = joined \cup {Lower(arg)}
    /\ allocated' = allocated + 1
    /\ ndicts' = ndicts + 1
    /\ pomodoros' = [pomodoros EXCEPT ![allocated + 1] =
                        NewPomodoro(Lower(arg), ndicts + 1)]
    /\ dicts' = [dicts EXCEPT ![ndicts + 1] = EmptyDict]
    /\ channel_table' = [channel_table EXCEPT ![Lower(arg)] = allocated + 1]
    /\ Reply(<<>>, None)
    /\ UNCHANGED <<delayed, logbook, since_break, args>>

\* do_part, sent by the controller as "part <arg>".
do_part(arg) ==
    /\ reactor = "running"
    /\ joined' = joined \ {Lower(arg)}
    /\ Reply(<<>>, None)
    /\ UNCHANGED <<channel_table, pomodoros, allocated, dicts, ndicts, delayed,
                   logbook, since_break, args>>

\* "not session.votes" on line 104: session.votes is the bound method, which
\* is always true, so the test is always false.
no_votes_yet(p) == FALSE

\* A dispatch that starts a session whenever no break is running.
branch_restart(p) ==
    IF session_running(p) = "break" THEN "vote" ELSE "start"

\* The branch do_pub_pomodoro takes for the session p (lines 104-137).
branch(p) ==
    IF session_running(p) = "break" /\ no_votes_yet(p) THEN "request"
    ELSE IF session_running(p) = "break" THEN "vote"
    ELSE IF session_running(p) = "work" THEN "work"
    ELSE "start"

\* The modes whose tally has reached the number of registered users
\* (line 125), for the tallies v and the dict d.
winners(v, d) ==
    {m \in DOMAIN v : Cardinality(v[m]) >= Cardinality(Keys(d))}

\* do_pub_pomodoro, sent to a channel by nick as ".pomodoro <mode>".
do_pub_pomodoro(target, nick, mode) ==
    LET s == channel_table[target]
        p == pomodoros[s]
    IN
    /\ reactor = "running"
    /\ Lower(target) \in joined
    /\ IF ~HasKey(target)
       THEN /\ Reply(<<>>, "KeyError")
            /\ UNCHANGED <<channel_table, pomodoros, allocated, dicts, ndicts,
                           delayed>>
       ELSE CASE branch(p) = "request" ->
                 /\ Reply(<<Notice(target, "has_requested", <<p.mode, mode>>),
                            Notice(target, "back_this_change", <<mode>>),
                            Notice(target, "must_be_registered", <<>>)>>,
                          None)
                 /\ UNCHANGED <<channel_table, pomodoros, allocated, dicts,
                                ndicts, delayed>>
              [] branch(p) = "vote" ->
                 LET v == vote(p, mode, nick)
                     w == winners(votes(v.p), users(v.p, dicts))
                 IN  IF v.raised # None
                     THEN /\ Reply(<<>>, v.raised)
                          /\ UNCHANGED <<channel_table, pomodoros, allocated,
                                         dicts, ndicts, delayed>>
                     ELSE IF w = {}
                     THEN /\ pomodoros' = [pomodoros EXCEPT ![s] = v.p]
                          /\ Reply(<<Notice(nick, "vote_cast", <<>>)>>, None)
                          /\ UNCHANGED <<channel_table, allocated, dicts,
                                         ndicts, delayed>>
                     ELSE \* lines 126-131: the first mode of the loop that
                          \* has the votes; the old Pomodoro is stopped and
                          \* a new one takes its place in the table.
                          /\ allocated < MaxSessions
                          /\ ndicts + 2 <= MaxDicts
                          /\ \E m \in w :
                               LET new == allocated + 1
                                   e == initialize_pomodoro(
                                          NewPomodoro(target, ndicts + 2),
                                          new, m, 0)
                               IN  /\ pomodoros' =
                                        [pomodoros EXCEPT
                                           ![s] = pomodoro_stop(v.p, ndicts + 1),
                                           ![new] = e.p]
                                   /\ delayed' = delayed \cup e.sched
                          /\ channel_table' =
                               [channel_table EXCEPT ![target] = allocated + 1]
                          /\ allocated' = allocated + 1
                          /\ ndicts' = ndicts + 2
                          /\ dicts' = [dicts EXCEPT ![ndicts + 1] = EmptyDict,
                                                    ![ndicts + 2] = EmptyDict]
                          /\ Reply(<<Notice(nick, "vote_cast", <<>>)>>, None)
              [] branch(p) = "work" ->
                 /\ Reply(<<Notice(nick, "cant_vote_during_work", <<>>)>>, None)
                 /\ UNCHANGED <<channel_table, pomodoros, allocated, dicts,
                                ndicts, delayed>>
              [] OTHER ->
                 \* lines 138-148: the announcement looks the mode up as it
                 \* was typed, after initialize_pomodoro has run.
                 LET e == initialize_pomodoro(p, s, mode, RegistrationDelay)
                 IN  /\ pomodoros' = [pomodoros EXCEPT ![s] = e.p]
                     /\ delayed' = delayed \cup e.sched
                     /\ IF mode \in DOMAIN modes
                        THEN Reply(<<Notice(target, "has_started",
                                            <<mode, modes[mode][1],
                                              modes[mode][2]>>),
                                     Notice(target, "starts_in_five", <<>>)>>,
                                   None)
                        ELSE Reply(<<>>, "KeyError")
                     /\ UNCHANGED <<channel_table, allocated, dicts, ndicts>>
    /\ UNCHANGED <<joined, logbook, since_break, args>>

\* do_pub_register, sent to a channel by nick as ".register <words>".
do_pub_register(target, nick, words) ==
    LET s == channel_table[target]
        p == pomodoros[s]
        goal == GoalText(words)
    IN
    /\ reactor = "running"
    /\ Lower(target) \in joined
    /\ IF ~HasKey(target)
       THEN /\ Reply(<<>>, "KeyError")
            /\ UNCHANGED <<dicts, logbook, since_break>>
       ELSE IF session_running(p) # "False"
       THEN LET r == register_nick(p, users(p, dicts), nick, goal)
                book == log_session(logbook, nick)
                saved == save_one(book, nick)
            IN  /\ dicts' = [dicts EXCEPT ![p.current_users] = r.d]
                /\ since_break' = [since_break EXCEPT ![s][nick] = goal]
                /\ logbook' = book
                /\ IF saved = None
                   THEN Reply(<<Notice(nick, "registered", <<>>)>>, None)
                   ELSE Reply(<<>>, saved)
       ELSE /\ Reply(<<Notice(nick, "no_session_running", <<>>)>>, None)
            /\ UNCHANGED <<dicts, logbook, since_break>>
    /\ UNCHANGED <<channel_table, pomodoros, allocated, ndicts, delayed, joined,
                   args>>

----------------------------------------------------------------------------
(* The delayed commands: the irc library runs each one once, when due. *)

Run(cb, e) ==
    /\ pomodoros' = [pomodoros EXCEPT ![cb.self] = e.p]
    /\ delayed' = (delayed \ {cb}) \cup e.sched
    /\ Reply(e.notices, e.raised)

fire_pomodoro_start(cb) ==
    /\ reactor = "running"
    /\ cb.function = "pomodoro_start"
    /\ \E tm_min \in args.minutes :
          Run(cb, pomodoro_start(pomodoros[cb.self], cb.self, cb.mode, tm_min))
    /\ UNCHANGED <<channel_table, allocated, dicts, ndicts, joined, logbook,
                   since_break, args>>

fire_pomodoro_break(cb) ==
    /\ reactor = "running"
    /\ cb.function = "pomodoro_break"
    /\ LET p == pomodoros[cb.self]
       IN  /\ Run(cb, pomodoro_break(p, cb.self, cb.mode))
           /\ dicts' = [dicts EXCEPT ![p.current_users] = clear(@)]
    /\ since_break' = [since_break EXCEPT ![cb.self] = EmptyDict]
    /\ UNCHANGED <<channel_table, allocated, ndicts, joined, logbook, args>>

fire_callback(cb) ==
    /\ reactor = "running"
    /\ cb.function = "callback"
    /\ \E tm_min \in args.minutes :
          Run(cb, callback(pomodoros[cb.self], cb.self, cb.mode,
                           dicts[cb.users], tm_min))
    /\ UNCHANGED <<channel_table, allocated, dicts, ndicts, joined, logbook,
                   since_break, args>>

Next ==
    \/ \E arg \in args.chans : do_join(arg)
    \/ \E arg \in args.chans : do_part(arg)
    \/ \E target \in args.chans, nick \in args.nicks, mode \in args.modes :
          do_pub_pomodoro(target, nick, mode)
    \/ \E target \in args.chans, nick \in args.nicks, words \in GoalArgs :
          do_pub_register(target, nick, words)
    \/ \E cb \in delayed : fire_pomodoro_start(cb)
    \/ \E cb \in delayed : fire_pomodoro_break(cb)
    \/ \E cb \in delayed : fire_callback(cb)

Spec == Init /\ [][Next]_vars

SpecChannels == InitChannels /\ [][Next]_vars

SpecClock == InitClock /\ [][Next]_vars

\* Pomodoro.pomodoro_stop called on a Pomodoro that is on break, as line 126
\* calls it.  In the bot that line is behind Pomodoro.vote, so this step is
\* taken only by NextStop, which drives the class through the method itself.
call_pomodoro_stop(s) ==
    /\ reactor = "running"
    /\ session_running(pomodoros[s]) = "break"
    /\ ndicts < MaxDicts
    /\ pomodoros' = [pomodoros EXCEPT ![s] = pomodoro_stop(@, ndicts + 1)]
    /\ dicts' = [dicts EXCEPT ![ndicts + 1] = EmptyDict]
    /\ ndicts' = ndicts + 1
    /\ Reply(<<>>, None)
    /\ UNCHANGED <<channel_table, allocated, delayed, joined, logbook,
                   since_break, args>>

NextStop ==
    \/ Next
    \/ \E s \in 1..allocated : call_pomodoro_stop(s)

SpecStop == InitStop /\ [][NextStop]_vars

----------------------------------------------------------------------------
(* Vocabulary of the properties *)

Allocated == 1..allocated

\* The delayed commands that reference Pomodoro s.
Pending(s) == {cb \in delayed : cb.self = s}

AwaitsStart(s) == \E cb \in Pending(s) : cb.function = "pomodoro_start"
AwaitsBreak(s) == \E cb \in Pending(s) : cb.function = "pomodoro_break"
AwaitsBreakEnd(s) == \E cb \in Pending(s) : cb.function = "callback"

\* The states of a session, read off session_running() and the stage of the
\* timer chain.
Idle(s) == session_running(pomodoros[s]) = "False"
Registering(s) == session_running(pomodoros[s]) = "work" /\ AwaitsStart(s)
Working(s) == session_running(pomodoros[s]) = "work" /\ AwaitsBreak(s)
OnBreak(s) == session_running(pomodoros[s]) = "break" /\ AwaitsBreakEnd(s)

\* The Pomodoro s is the one _channel_table holds for the channel it was
\* made for, and the bot is in that channel.
Bound(s) == \E c \in Channels : channel_table[c] = s
Abandoned(s) ==
    \/ ~Bound(s)
    \/ Lower(pomodoros[s].channel) \notin joined

Fires(cb) ==
    fire_pomodoro_start(cb) \/ fire_pomodoro_break(cb) \/ fire_callback(cb)

\* The last handler ended by sending exactly this one notice.
Answered(to, text) ==
    /\ out.raised = None
    /\ Len(out.notices) = 1
    /\ out.notices[1].to = to
    /\ out.notices[1].text = text

\* The session objects, their dicts and the timers are as before the step.
SessionsUnchanged ==
    UNCHANGED <<channel_table, pomodoros, allocated, dicts, ndicts, delayed>>

\* The voters for mode once nick's vote is counted.
Supporters(p, mode, nick) ==
    (IF mode \in DOMAIN p.votes THEN p.votes[mode] ELSE {}) \cup {nick}

\* A ".pomodoro <mode>" by nick handled during a break of the bound session,
\* with a known mode, at a moment when the voters for that mode, nick
\* included, are at least as many as the registered users.
QuorumVote(target, nick, mode) ==
    /\ do_pub_pomodoro(target, nick, mode)
    /\ HasKey(target)
    /\ OnBreak(channel_table[target])
    /\ mode \in DOMAIN modes
    /\ Cardinality(Supporters(pomodoros[channel_table[target]], mode, nick))
         >= Cardinality(Keys(users(pomodoros[channel_table[target]], dicts)))

----------------------------------------------------------------------------
(* C1: when the break-expiry callback of a session fires and nobody has    *)
(* registered on that session since its break began, the session is left   *)
(* Idle with no delayed command pending for it, in every mode.             *)
C1_CycleEndsIdle ==
    [][\A cb \in delayed :
          (fire_callback(cb) /\ Keys(since_break[cb.self]) = {})
          => /\ session_running(pomodoros'[cb.self]) = "False"
             /\ \A c \in delayed' : c.self # cb.self]_vars

\* A session has run a whole lazy cycle and is Idle again, nothing pending.
C1_Witness ==
    \E s \in Allocated :
        /\ pomodoros[s].mode = "lazy"
        /\ Idle(s)
        /\ Pending(s) = {}
        /\ Keys(since_break[s]) = {}
        /\ out = Quiet

(* C2: when the break-expiry callback fires and somebody has registered    *)
(* during the break, the session is then Working (session_running() is     *)
(* "work"), its mode is unchanged and a pomodoro_break is queued for it.   *)
C2_BreakWithRegistrantsResumesWork ==
    [][\A cb \in delayed :
          (fire_callback(cb) /\ Keys(since_break[cb.self]) # {})
          => /\ session_running(pomodoros'[cb.self]) = "work"
             /\ pomodoros'[cb.self].mode = pomodoros[cb.self].mode
             /\ \E c \in delayed' :
                   c.self = cb.self /\ c.function = "pomodoro_break"]_vars

(* C3: a ".pomodoro <mode>" received while a work interval of the bound    *)
(* session is in progress (its pomodoro_break is pending) is answered with *)
(* the can't-vote-during-work notice and changes nothing.                  *)
C3_NoVoteDuringWork ==
    [][\A target \in args.chans, nick \in Nicks, mode \in args.modes :
          (/\ do_pub_pomodoro(target, nick, mode)
           /\ HasKey(target)
           /\ AwaitsBreak(channel_table[target]))
          => /\ Answered(nick, "cant_vote_during_work")'
             /\ SessionsUnchanged]_vars

(* C4: the vote of the only registered user during a break reaches the     *)
(* quorum and replaces the channel's session, and the break-expiry         *)
(* callback left pending against the stopped session does nothing when it  *)
(* fires: no session changes, no notice is sent, nothing is queued.        *)
C4_StaleBreakCallbackIsNoOp ==
    [][/\ \A target \in args.chans, nick \in Nicks, mode \in args.modes :
             (/\ QuorumVote(target, nick, mode)
              /\ Keys(users(pomodoros[channel_table[target]], dicts)) = {nick})
             => /\ channel_table'[target] # channel_table[target]
                /\ \A c \in Channels : channel_table'[c] # channel_table[target]
                /\ \E cb \in delayed' :
                      /\ cb.self = channel_table[target]
                      /\ cb.function = "callback"
       /\ \A cb \in delayed :
             (/\ fire_callback(cb)
              /\ ~Bound(cb.self)
              /\ cb.users # pomodoros[cb.self].current_users)
             => /\ pomodoros' = pomodoros
                /\ out'.notices = <<>>
                /\ delayed' = delayed \ {cb}]_vars

(* C5: a vote that reaches the quorum during a break switches the session  *)
(* at once: the channel's session has the winning mode, no registered      *)
(* users and no tallies, and its pomodoro_start is queued with delay 0.    *)
C5_QuorumSwitchesAtOnce ==
    [][\A target \in args.chans, nick \in Nicks, mode \in args.modes :
          QuorumVote(target, nick, mode)
          => LET s == channel_table'[target]
             IN  /\ pomodoros'[s].mode = Lower(mode)
                 /\ Keys(dicts'[pomodoros'[s].current_users]) = {}
                 /\ DOMAIN pomodoros'[s].votes = {}
                 /\ \E cb \in delayed' :
                       /\ cb.self = s
                       /\ cb.function = "pomodoro_start"
                       /\ cb.delay = 0]_vars

(* C6: a ".register <words>" succeeds whenever the session is not Idle,    *)
(* leaving nick -> goal in the registered users and confirming to nick;    *)
(* while the session is Idle it is refused and changes nothing.            *)
C6_RegisterOutsideIdleSucceeds ==
    [][\A target \in args.chans, nick \in Nicks, words \in GoalArgs :
          (do_pub_register(target, nick, words) /\ HasKey(target))
          => LET s == channel_table[target]
                 p == pomodoros[s]
             IN  IF ~Idle(s)
                 THEN /\ Answered(nick, "registered")'
                      /\ dicts' = [dicts EXCEPT ![p.current_users][nick] =
                                                   GoalText(words)]
                      /\ UNCHANGED <<channel_table, pomodoros, delayed>>
                 ELSE /\ Answered(nick, "no_session_running")'
                      /\ SessionsUnchanged]_vars

C8_UnknownModeIsRejected ==
    [][\A target \in args.chans, nick \in Nicks, mode \in args.modes :
          (/\ do_pub_pomodoro(target, nick, mode)
           /\ HasKey(target)
           /\ Idle(channel_table[target])
           /\ Lower(mode) \notin DOMAIN modes)
          => /\ out'.raised = None
             /\ Len(out'.notices) = 1
             /\ out'.notices[1].to = nick
             /\ session_running(pomodoros'[channel_table[target]]) = "False"
             /\ SessionsUnchanged]_vars

(* C9: _channel_table holds no entry for a channel the bot is not in:      *)
(* after part and until the next join the channel has no session.          *)
C9_PartRemovesEntry ==
    \A c \in Channels : c \notin joined => channel_table[c] = 0

(* C10: a delayed command that fires against an abandoned Pomodoro (its    *)
(* channel was parted, or a later join replaced it) is ignored: it sends   *)
(* no notice, queues nothing and changes no Pomodoro that _channel_table   *)
(* holds.                                                                  *)
C10_AbandonedCallbacksIgnored ==
    [][\A cb \in delayed :
          (Fires(cb) /\ Abandoned(cb.self))
          => /\ out'.notices = <<>>
             /\ delayed' = delayed \ {cb}
             /\ \A s \in Allocated :
                   Bound(s) /\ s # cb.self => pomodoros'[s] = pomodoros[s]]_vars

\* The Pomodoro objects made for channels other than a keep their fields,
\* their registered users and their delayed commands in the step.
OthersUnchanged(a) ==
    \A s \in Allocated :
        pomodoros[s].channel # a
        => /\ pomodoros'[s] = pomodoros[s]
           /\ dicts'[pomodoros[s].current_users]
                 = dicts[pomodoros[s].current_users]
           /\ {cb \in delayed' : cb.self = s} = Pending(s)

(* C11: sessions of different channels never interact: no ".pomodoro" or   *)
(* ".register" sent to a channel, and no delayed command of a Pomodoro     *)
(* made for that channel, changes the state, mode, registered users,       *)
(* tallies or delayed commands of a Pomodoro made for another channel.     *)
C11_ChannelsNeverInteract ==
    /\ \A target \in args.chans, nick \in Nicks, mode \in args.modes :
          ~ ENABLED (/\ do_pub_pomodoro(target, nick, mode)
                     /\ ~OthersUnchanged(Lower(target)))
    /\ \A target \in args.chans, nick \in Nicks, words \in GoalArgs :
          ~ ENABLED (/\ do_pub_register(target, nick, words)
                     /\ ~OthersUnchanged(Lower(target)))
    /\ \A cb \in delayed :
          ~ ENABLED (/\ Fires(cb)
                     /\ ~OthersUnchanged(pomodoros[cb.self].channel))

\* Both channels have a session under way, each with its own registered
\* user and its own delayed command, and a registration was just confirmed.
C11_Witness ==
    \E s, t \in Allocated :
        /\ pomodoros[s].channel = "#a"
        /\ pomodoros[t].channel = "#b"
        /\ OnBreak(s)
        /\ Working(t)
        /\ Keys(users(pomodoros[s], dicts)) = {"alice"}
        /\ Keys(users(pomodoros[t], dicts)) = {"Bob"}
        /\ Answered("alice", "registered")

\* The number n < 100 written with two digits.
TwoDigits(n) == <<n \div 10, n % 10>>

\* What the claim expects of the labels for minute m and work length w.
LabelsAsSpecified(l, m, w) ==
    LET e == (m + w) % 60
    IN  /\ l.start = TwoDigits(m)
        /\ l.end.digits = TwoDigits(e)
        /\ (l.end.suffix = " of the next hour.") <=> (e < m)
        /\ (l.end.suffix = ".") <=> ~(e < m)
        /\ (e < m) <=> (m + w >= 60)

(* C12: every "Pomodoro starts at" notice, for the minute m at which it    *)
(* was sent and the work length w of its mode, shows m and (m + w) mod 60  *)
(* as two digits each, with "of the next hour" after the end label exactly *)
(* when (m + w) mod 60 < m, which is exactly when m + w >= 60; so do the   *)
(* labels for m = 55, w = 10 and for m = 7, w = 5.                         *)
C12_TimeLabels ==
    /\ \A i \in DOMAIN out.notices :
          out.notices[i].text = "pomodoro_starts"
          => LabelsAsSpecified(out.notices[i].info.labels,
                               out.notices[i].info.tm_min,
                               modes[out.notices[i].info.mode][1])
    /\ LabelsAsSpecified(TimeLabels(55, 10), 55, 10)
    /\ TimeLabels(55, 10).end
          = [digits |-> <<0, 5>>, suffix |-> " of the next hour."]
    /\ LabelsAsSpecified(TimeLabels(7, 5), 7, 5)
    /\ TimeLabels(7, 5)
          = [start |-> <<0, 7>>, end |-> [digits |-> <<1, 2>>, suffix |-> "."]]

\* A work period announced at minute 59 in mode test: ":59" to ":00 of the
\* next hour".
C12_Witness ==
    /\ Len(out.notices) = 1
    /\ out.notices[1].text = "pomodoro_starts"
    /\ out.notices[1].info.tm_min = 59
    /\ out.notices[1].info.mode = "test"
    /\ out.notices[1].info.labels.end
          = [digits |-> <<0, 0>>, suffix |-> " of the next hour."]

(* C13: the registered users are emptied when pomodoro_break runs and by   *)
(* no other step: right after pomodoro_break the session's dict is empty,  *)
(* no other step removes a nickname from any dict, and the dict a pending  *)
(* break callback will test holds exactly the nicknames registered on the  *)
(* session since its break began, each with the goal last given.           *)
C13_ClearedOnlyAtBreak ==
    /\ [](\A cb \in delayed :
             cb.function = "callback" => dicts[cb.users] = since_break[cb.self])
    /\ [][/\ \A cb \in delayed :
               fire_pomodoro_break(cb)
               => Keys(dicts'[pomodoros'[cb.self].current_users]) = {}
          /\ \A d \in DictIds, n \in Nicks :
               (dicts[d][n] # Absent /\ dicts'[d][n] = Absent)
               => \E cb \in delayed :
                     /\ fire_pomodoro_break(cb)
                     /\ pomodoros[cb.self].current_users = d]_vars

\* During a break Bob has registered without a goal and alice with one: the
\* dict the pending callback holds has both, and alice was just confirmed.
C13_Witness ==
    \E cb \in delayed :
        /\ cb.function = "callback"
        /\ OnBreak(cb.self)
        /\ dicts[cb.users] = [alice |-> " g", Bob |-> ""]
        /\ Answered("alice", "registered")

C15_FirstRequestOnlyAnnounces ==
    [][\A target \in args.chans, nick \in Nicks, mode \in args.modes :
          (/\ do_pub_pomodoro(target, nick, mode)
           /\ HasKey(target)
           /\ OnBreak(channel_table[target])
           /\ DOMAIN pomodoros[channel_table[target]].votes = {})
          => /\ out'.raised = None
             /\ Len(out'.notices) = 3
             /\ out'.notices[1].text = "has_requested"
             /\ out'.notices[1].to = target
             /\ DOMAIN pomodoros'[channel_table[target]].votes = {}
             /\ SessionsUnchanged]_vars

(* C16: the channel's session is switched by vote only in the step that    *)
(* records a vote during a break, and only when the voters for the mode    *)
(* are then at least as many as the users registered at that moment; a     *)
(* vote that does not switch the session, as when a further registration   *)
(* has raised that number, is recorded and leaves the mode alone; and a    *)
(* ".register" or a delayed command never replaces the session or changes  *)
(* its mode.                                                               *)
C16_SwitchOnlyOnQuorumVote ==
    [][/\ \A target \in args.chans, nick \in Nicks, mode \in args.modes :
             (/\ do_pub_pomodoro(target, nick, mode)
              /\ HasKey(target)
              /\ OnBreak(channel_table[target]))
             => LET s == channel_table[target]
                    quorum ==
                        Cardinality(Supporters(pomodoros[s], mode, nick))
                          >= Cardinality(Keys(users(pomodoros[s], dicts)))
                IN  /\ channel_table'[target] # s => quorum
                    /\ channel_table'[target] = s
                        => /\ pomodoros'[s].mode = pomodoros[s].mode
                           /\ mode \in DOMAIN pomodoros'[s].votes
                           /\ nick \in pomodoros'[s].votes[mode]
       /\ \A target \in args.chans, nick \in Nicks, words \in GoalArgs :
             do_pub_register(target, nick, words)
             => UNCHANGED <<channel_table, pomodoros, delayed>>
       /\ \A cb \in delayed :
             Fires(cb)
             => /\ channel_table' = channel_table
                /\ pomodoros'[cb.self].mode = pomodoros[cb.self].mode]_vars

(* C17: a Pomodoro that is not Idle becomes Idle only when its break       *)
(* callback fires with an empty dict of registered users, and every        *)
(* delayed command that fires and does not leave its Pomodoro Idle queues  *)
(* exactly one delayed command for it in place of itself.                  *)
C17_OnlyEmptyBreakEndsCycle ==
    [][/\ \A s \in Allocated :
             (~Idle(s) /\ session_running(pomodoros'[s]) = "False")
             => \E cb \in delayed :
                   /\ cb.self = s
                   /\ fire_callback(cb)
                   /\ Keys(dicts[cb.users]) = {}
       /\ \A cb \in delayed :
             (Fires(cb) /\ session_running(pomodoros'[cb.self]) # "False")
             => \E c \in delayed' \ delayed :
                   /\ c.self = cb.self
                   /\ delayed' = (delayed \ {cb}) \cup {c}]_vars

(* C18: once pomodoro_stop has been called on a Pomodoro during a break    *)
(* (its _current_users is no longer the dict its pending break callback    *)
(* holds), that callback begins no further work period when it fires: the  *)
(* Pomodoro is left Idle, nothing is announced and nothing is queued for   *)
(* it, whether or not users had registered earlier in the break.           *)
C18_StoppedSessionStopsAfterBreak ==
    [][\A cb \in delayed :
          (/\ fire_callback(cb)
           /\ cb.users # pomodoros[cb.self].current_users)
          => /\ session_running(pomodoros'[cb.self]) = "False"
             /\ out'.notices = <<>>
             /\ \A c \in delayed' : c.self # cb.self]_vars

(* C19: the mode of a Pomodoro is undefined (None) whenever it is Idle,    *)
(* also after it has run one or more cycles, and is one of the modes of    *)
(* the enumeration whenever it is not Idle.                                *)
C19_ModeDefinedIffRunning ==
    \A s \in Allocated :
        IF Idle(s)
        THEN pomodoros[s].mode = None
        ELSE pomodoros[s].mode \in DOMAIN modes

(* C20: a mode change by vote can be had: a ".pomodoro <mode>" for a known *)
(* mode sent during a break by a registered user never ends in an          *)
(* exception, the vote is counted, and once every registered user is among *)
(* the voters for the mode the channel's session has that mode, before the *)
(* break callback of the old session has fired.                            *)
C20_VoteCanChangeMode ==
    [][\A target \in args.chans, nick \in Nicks, mode \in args.modes :
          (/\ do_pub_pomodoro(target, nick, mode)
           /\ HasKey(target)
           /\ OnBreak(channel_table[target])
           /\ mode \in DOMAIN modes
           /\ nick \in Keys(users(pomodoros[channel_table[target]], dicts)))
          => LET s == channel_table[target]
                 p == pomodoros[s]
             IN  /\ out'.raised = None
                 /\ IF Keys(users(p, dicts)) \subseteq Supporters(p, mode, nick)
                    THEN /\ pomodoros'[channel_table'[target]].mode = mode
                         /\ \E cb \in delayed' :
                               cb.self = s /\ cb.function = "callback"
                    ELSE /\ channel_table'[target] = s
                         /\ mode \in DOMAIN pomodoros'[s].votes
                         /\ nick \in pomodoros'[s].votes[mode]]_vars

(* C21: the Pomodoro that _channel_table holds for a channel has no        *)
(* delayed command pending while it is Idle and exactly one while it is    *)
(* not (Registering, Working or on break): never two timer chains, never   *)
(* a running session with nothing queued to move it on.                    *)
C21_OnePendingCallbackWhileRunning ==
    \A s \in Allocated :
        Bound(s)
        => IF Idle(s)
           THEN Pending(s) = {}
           ELSE Cardinality(Pending(s)) = 1

====
